---- MODULE Spec2Model ----
(***************************************************************************)
(* SKarma: the karma-change handlers of skarma/message_parser.py and the   *)
(* karma and stats tables of skarma/karma.py.                              *)
(*                                                                         *)
(* Spec      message_handler and cancel_command handled one update at a    *)
(*           time, with a clock.                                           *)
(* SpecKarma sequential change_user_karma calls on the karma table.        *)
(* SpecRace  change_user_karma calls whose two database statements         *)
(*           interleave.                                                   *)
(* SpecTop   get_ordered_karma_top queries on the karma table.             *)
(* SpecThree message_handler with three users who are not bots.            *)
(* SpecParse _parse_message on the configured phrase lists.                *)
(* SpecThread AnnouncementsThread: its construction and its run.           *)
(* SpecSteps message_handler calls of concurrent updates, call by call,    *)
(*           with database calls that may fail.                            *)
(***************************************************************************)
EXTENDS Integers, Sequences, FiniteSets, TLC

VARIABLES
    karma,             \* table karma: sequence of rows [chat_id, user_id, karma]
    stats,             \* table stats: (chat_id, user_id) -> row, a row per key at most
    used_messages,     \* MessagesManager's table: set of <<chat_id, user_id, message_id>>
    last_actions,      \* dict (chat_id, user_id) -> [user, value, timestamp]
    last_karma_minus,  \* defaultdict (chat_id, user_id) -> list of [who, date]
    now,               \* the UTC clock, in seconds
    sent,              \* the last message the bot sent (context.bot.send_message)
    calls,             \* SpecKarma, SpecRace: the changes of the change_user_karma calls made, per key
    pc,                \* SpecRace, SpecSteps: each caller's position in its function
    args,              \* SpecRace, SpecSteps: each caller's arguments
    result,            \* SpecRace, SpecSteps: each caller's local variables
    top,               \* SpecTop: the last get_ordered_karma_top query on this table, its rows
    RAISE_COMMANDS,    \* karma_conf['raise']: list of strings
    LOWER_COMMANDS,    \* karma_conf['lower']: list of strings
    parsed,            \* SpecParse: the last _parse_message call, its msg and result
    chats,             \* AnnouncementsThread.chats
    last_chats_change_time,  \* AnnouncementsThread.last_chats_change_time
    all_chats,         \* ChatsManager's table of chats
    all_announcements, \* AnnouncementsManager's table: list of announcement ids
    thread             \* the AnnouncementsThread: its position, locals and log

parservars == <<RAISE_COMMANDS, LOWER_COMMANDS, parsed>>
threadvars == <<chats, last_chats_change_time, all_chats, all_announcements, thread>>

vars == <<karma, stats, used_messages, last_actions, last_karma_minus,
          now, sent, calls, pc, args, result, top, parservars, threadvars>>

----------------------------------------------------------------------------
(* Bounds and inputs *)

MaxElapsed == 121
MaxKarma == 1

\* Configuration of the admission check: the daily cap and the change value
DailyCap == 2
ChangeUnit == 1

DaySeconds == 86400
\* 2*60 seconds: the revenge window of message_handler, the grace of cancel_command
Window == 120
Grace == 120

Chats == {1}
Bots == {3}
Users == {1, 2, 3}
\* The users whose updates are handled
Actors == {1, 2}
Messages == {1, 2, 3, 4}

\* reply_to_message.from_user of message m: each message has one author
Author(m) == <<1, 2, 3, 1, 4>>[m]
is_bot(u) == u \in Bots

\* The clock starts one second before midnight UTC and is read at these instants,
\* in seconds after the start
StartTime == DaySeconds - 1
Instants == {t \in {0, 120, 121, 122, 240, 241, 242} : t <= MaxElapsed}

\* datetime.date() of a timestamp in seconds
Date(t) == t \div DaySeconds

----------------------------------------------------------------------------
(* karma.py: KarmaManager *)

RECURSIVE SelectRows(_, _, _)
\* select ... from karma where chat_id = c and user_id = u
SelectRows(tbl, c, u) ==
    IF tbl = <<>> THEN <<>>
    ELSE LET r == Head(tbl)
             rest == SelectRows(Tail(tbl), c, u)
         IN IF r.chat_id = c /\ r.user_id = u THEN <<r>> \o rest ELSE rest

\* get_user_karma: 0 without a row, DatabaseError with more than one
get_user_karma(tbl, c, u) ==
    LET res == SelectRows(tbl, c, u)
    IN IF Len(res) = 0 THEN [error |-> FALSE, value |-> 0]
       ELSE IF Len(res) # 1 THEN [error |-> TRUE, value |-> 0]
       ELSE [error |-> FALSE, value |-> res[1].karma]

\* insert into karma (chat_id, user_id, karma) values (c, u, change)
InsertKarma(tbl, c, u, change) ==
    Append(tbl, [chat_id |-> c, user_id |-> u, karma |-> change])

\* Mutant of UpdateKarma: the update sets the karma to the change
UpdateKarmaOverwrite(tbl, c, u, change) ==
    [i \in DOMAIN tbl |->
        IF tbl[i].chat_id = c /\ tbl[i].user_id = u
        THEN [tbl[i] EXCEPT !.karma = change]
        ELSE tbl[i]]

\* update karma set karma = karma + change where chat_id = c and user_id = u
UpdateKarma(tbl, c, u, change) ==
    [i \in DOMAIN tbl |->
        IF tbl[i].chat_id = c /\ tbl[i].user_id = u
        THEN [tbl[i] EXCEPT !.karma = @ + change]
        ELSE tbl[i]]

\* change_user_karma run without interruption: select, then insert or update
change_user_karma(tbl, c, u, change) ==
    IF Len(SelectRows(tbl, c, u)) = 0
    THEN InsertKarma(tbl, c, u, change)
    ELSE UpdateKarma(tbl, c, u, change)

increase_user_karma(tbl, c, u, up_change) == change_user_karma(tbl, c, u, up_change)

decrease_user_karma(tbl, c, u, down_change) == change_user_karma(tbl, c, u, 0 - down_change)

\* select distinct user_id, karma from karma where chat_id = c and karma > 0
\* (biggest) or karma < 0 (smallest): the set of <<user_id, karma>> pairs
SelectTop(tbl, c, biggest) ==
    { <<tbl[i].user_id, tbl[i].karma>> :
         i \in { j \in DOMAIN tbl :
                    /\ tbl[j].chat_id = c
                    /\ IF biggest THEN tbl[j].karma > 0 ELSE tbl[j].karma < 0 } }

\* Mutant of OrderedBefore: the order is desc whatever biggest is
OrderedBeforeDesc(x, y, biggest) == x[2] >= y[2]

\* order by karma desc (biggest) or asc: x may come before y
OrderedBefore(x, y, biggest) == IF biggest THEN x[2] >= y[2] ELSE x[2] <= y[2]

RECURSIVE OrderBy(_, _)
\* The sequences `order by karma` may return for the pairs S: rows of equal karma
\* come in any order
OrderBy(S, biggest) ==
    IF S = {} THEN {<<>>}
    ELSE UNION { { <<x>> \o rest : rest \in OrderBy(S \ {x}, biggest) } :
                 x \in { y \in S : \A z \in S : OrderedBefore(y, z, biggest) } }

\* limit amount
Limit(rows, amount) ==
    SubSeq(rows, 1, IF Len(rows) < amount THEN Len(rows) ELSE amount)

\* get_ordered_karma_top: the lists the query may return
get_ordered_karma_top(tbl, c, amount, biggest) ==
    { Limit(rows, amount) : rows \in OrderBy(SelectTop(tbl, c, biggest), biggest) }

----------------------------------------------------------------------------
(* karma.py: StatsManager *)

\* Mutant of handle_user_change_karma: a row of another day keeps its counter,
\* which is incremented
handle_user_change_karma_keeps_count(st, c, a, t) ==
    LET k == <<c, a>>
    IN IF k \notin DOMAIN st
       THEN [x \in DOMAIN st \cup {k} |->
                IF x = k
                THEN [last_karma_change |-> <<t>>, today |-> Date(t),
                      today_karma_changes |-> 1]
                ELSE st[x]]
       ELSE [st EXCEPT ![k].today = Date(t),
                       ![k].today_karma_changes = @ + 1,
                       ![k].last_karma_change = <<t>>]

\* Mutant of handle_user_change_karma: a row of another day gets the counter 1
\* and keeps its day
handle_user_change_karma_keeps_day(st, c, a, t) ==
    LET k == <<c, a>>
    IN IF k \notin DOMAIN st
       THEN [x \in DOMAIN st \cup {k} |->
                IF x = k
                THEN [last_karma_change |-> <<t>>, today |-> Date(t),
                      today_karma_changes |-> 1]
                ELSE st[x]]
       ELSE IF Date(t) = st[k].today
       THEN [st EXCEPT ![k].today_karma_changes = @ + 1,
                       ![k].last_karma_change = <<t>>]
       ELSE [st EXCEPT ![k].today_karma_changes = 1,
                       ![k].last_karma_change = <<t>>]

\* handle_user_change_karma at time t: insert (.., 1), or today's counter + 1,
\* or a new day with counter 1; last_karma_change = UTC_TIMESTAMP in each
handle_user_change_karma(st, c, a, t) ==
    LET k == <<c, a>>
    IN IF k \notin DOMAIN st
       THEN [x \in DOMAIN st \cup {k} |->
                IF x = k
                THEN [last_karma_change |-> <<t>>, today |-> Date(t),
                      today_karma_changes |-> 1]
                ELSE st[x]]
       ELSE IF Date(t) = st[k].today
       THEN [st EXCEPT ![k].today_karma_changes = @ + 1,
                       ![k].last_karma_change = <<t>>]
       ELSE [st EXCEPT ![k].today = Date(t),
                       ![k].today_karma_changes = 1,
                       ![k].last_karma_change = <<t>>]

\* get_karma_changes_today: 0 without a row or with a row of another day
get_karma_changes_today(st, c, a, t) ==
    IF <<c, a>> \in DOMAIN st /\ st[<<c, a>>].today = Date(t)
    THEN st[<<c, a>>].today_karma_changes
    ELSE 0

\* reset_user_reset_last_karma_change: the rows the reset may leave. It clears the
\* last change, and may take the reversed action out of the day's count.
reset_user_reset_last_karma_change(st, c, a) ==
    LET k == <<c, a>>
    IN IF k \notin DOMAIN st THEN {st}
       ELSE { [st EXCEPT ![k].last_karma_change = <<>>,
                         ![k].today_karma_changes = IF @ > dec THEN @ - dec ELSE @]
              : dec \in {0, 1} }

\* check_could_user_change_karma: the verdict and the change value
check_could_user_change_karma(st, c, a, raise, t) ==
    IF get_karma_changes_today(st, c, a, t) >= DailyCap
    THEN <<"DAY_MAX_EXCEED", ChangeUnit>>
    ELSE <<"OK", ChangeUnit>>

----------------------------------------------------------------------------
(* MessagesManager *)

is_user_changed_karma_on_message(used, c, a, m) == <<c, a, m>> \in used

mark_message_as_used(used, c, a, m) == used \cup {<<c, a, m>>}

----------------------------------------------------------------------------
(* message_parser.py: message_handler *)

\* Mutant of revenge_blocked: an entry of exactly 2*60 seconds no longer blocks
revenge_blocked_before_window_end(lkm, c, a, u, t) ==
    /\ <<c, a>> \in DOMAIN lkm
    /\ \E i \in DOMAIN lkm[<<c, a>>] :
          /\ lkm[<<c, a>>][i].who = u
          /\ t - lkm[<<c, a>>][i].date < Window

\* The loop over last_karma_minus[(chat_id, from_user_id)]: some entry is of the
\* user replied to and at most 2*60 seconds old
revenge_blocked(lkm, c, a, u, t) ==
    /\ <<c, a>> \in DOMAIN lkm
    /\ \E i \in DOMAIN lkm[<<c, a>>] :
          /\ lkm[<<c, a>>][i].who = u
          /\ t - lkm[<<c, a>>][i].date <= Window

\* Mutant of handler_outcome: no duplicate test
handler_outcome_no_duplicate_test(c, a, m, pm) ==
    LET u == Author(m)
        check == check_could_user_change_karma(stats, c, a, pm = "RAISE", now)
    IN IF a = u THEN "SELF"
       ELSE IF is_bot(u) THEN "BOT"
       ELSE IF check[1] = "OK"
            THEN IF revenge_blocked(last_karma_minus, c, a, u, now) THEN "REVENGE"
                 ELSE "OK"
       ELSE check[1]

\* Mutant of handler_outcome: the revenge and duplicate tests come before the
\* admission check
handler_outcome_guards_first(c, a, m, pm) ==
    LET u == Author(m)
        check == check_could_user_change_karma(stats, c, a, pm = "RAISE", now)
    IN IF a = u THEN "SELF"
       ELSE IF is_bot(u) THEN "BOT"
       ELSE IF revenge_blocked(last_karma_minus, c, a, u, now) THEN "REVENGE"
       ELSE IF is_user_changed_karma_on_message(used_messages, c, a, m) THEN "DUPLICATE"
       ELSE check[1]

\* Mutant of handler_outcome: no test of from_user_id == user_id
handler_outcome_no_self_test(c, a, m, pm) ==
    LET u == Author(m)
        check == check_could_user_change_karma(stats, c, a, pm = "RAISE", now)
    IN IF is_bot(u) THEN "BOT"
       ELSE IF check[1] = "OK"
            THEN IF revenge_blocked(last_karma_minus, c, a, u, now) THEN "REVENGE"
                 ELSE IF is_user_changed_karma_on_message(used_messages, c, a, m)
                      THEN "DUPLICATE"
                      ELSE "OK"
       ELSE check[1]

\* The branch message_handler takes for a RAISE or LOWER reply, in the order of
\* its tests
handler_outcome(c, a, m, pm) ==
    LET u == Author(m)
        check == check_could_user_change_karma(stats, c, a, pm = "RAISE", now)
    IN IF a = u THEN "SELF"
       ELSE IF is_bot(u) THEN "BOT"
       ELSE IF check[1] = "OK"
            THEN IF revenge_blocked(last_karma_minus, c, a, u, now) THEN "REVENGE"
                 ELSE IF is_user_changed_karma_on_message(used_messages, c, a, m)
                      THEN "DUPLICATE"
                      ELSE "OK"
       ELSE check[1]

\* context.bot.send_message(chat_id = c, text = ...) in answer to an update of
\* user a; text names which of the handler's messages it is
Reply(c, a, text) == [chat |-> c, from |-> a, text |-> text]

Put(d, k, v) == [x \in DOMAIN d \cup {k} |-> IF x = k THEN v ELSE d[x]]

\* list.append on the defaultdict last_karma_minus
AppendMinus(lkm, k, e) ==
    Put(lkm, k, IF k \in DOMAIN lkm THEN Append(lkm[k], e) ELSE <<e>>)

\* Mutant of marked: the mark is set before the revenge test
marked_before_revenge_test(c, a, m, out) ==
    IF out \in {"OK", "REVENGE"} THEN mark_message_as_used(used_messages, c, a, m)
    ELSE used_messages

\* The used-message marks after the handler's tests: the mark is set in the else
\* branch of the duplicate test, which only an event that passed every test reaches
marked(c, a, m, out) ==
    IF out = "OK" THEN mark_message_as_used(used_messages, c, a, m) ELSE used_messages

\* Mutant of record_last_action: an entry the actor already has is kept
record_last_action_keeps_first(c, a, u, delta) ==
    IF <<c, a>> \in DOMAIN last_actions THEN last_actions
    ELSE Put(last_actions, <<c, a>>, [user |-> u, value |-> delta, timestamp |-> now])

\* last_actions after an admitted change of value delta (signed) of user u
record_last_action(c, a, u, delta) ==
    Put(last_actions, <<c, a>>, [user |-> u, value |-> delta, timestamp |-> now])

\* last_karma_minus after an admitted change: only a decrease is recorded, under
\* the key of the user whose karma was decreased
record_karma_minus(c, a, u, pm) ==
    IF pm = "RAISE" THEN last_karma_minus
    ELSE AppendMinus(last_karma_minus, <<c, u>>, [who |-> a, date |-> now])

message_handler(c, a, m, pm) ==
    LET u == Author(m)
        out == handler_outcome(c, a, m, pm)
        value == check_could_user_change_karma(stats, c, a, pm = "RAISE", now)[2]
        tbl == IF pm = "RAISE" THEN increase_user_karma(karma, c, u, value)
               ELSE decrease_user_karma(karma, c, u, value)
        total == get_user_karma(tbl, c, u)
    IN IF pm = "NOTHING" THEN UNCHANGED vars
       ELSE
         /\ UNCHANGED <<now, calls, pc, args, result, top, parservars, threadvars>>
         /\ used_messages' = marked(c, a, m, out)
         /\ IF out = "OK"
            THEN /\ total.value \in (0 - MaxKarma)..MaxKarma
                 /\ stats' = handle_user_change_karma(stats, c, a, now)
                 /\ karma' = tbl
                 /\ last_actions' =
                       record_last_action(c, a, u, IF pm = "RAISE" THEN value ELSE 0 - value)
                 /\ last_karma_minus' = record_karma_minus(c, a, u, pm)
                 /\ sent' = IF total.error THEN sent
                            ELSE Reply(c, a, IF pm = "RAISE" THEN "RAISED" ELSE "LOWERED")
            ELSE /\ sent' = Reply(c, a, out)
                 /\ UNCHANGED <<karma, stats, last_actions, last_karma_minus>>

----------------------------------------------------------------------------
(* message_parser.py: cancel_command *)

\* Mutant of grace_expired: an action of exactly 2*60 seconds ago is too late
grace_expired_at_window_end(timestamp, t) == t - timestamp >= Grace

\* (timestamp.utcnow() - timestamp).total_seconds() > 2*60
grace_expired(timestamp, t) == t - timestamp > Grace

\* Mutant of cancel_command: the undo of a lowering also takes the actor's
\* entries out of the target's last_karma_minus list
cancel_command_clears_minus(c, a) ==
    /\ UNCHANGED <<used_messages, last_actions, now,
                   calls, pc, args, result, top, parservars, threadvars>>
    /\ IF <<c, a>> \notin DOMAIN last_actions
       THEN /\ sent' = Reply(c, a, "NOTHING_TO_CANCEL")
            /\ UNCHANGED <<karma, stats, last_karma_minus>>
       ELSE LET la == last_actions[<<c, a>>]
                tbl == change_user_karma(karma, c, la.user, 0 - la.value)
                total == get_user_karma(tbl, c, la.user)
            IN IF grace_expired(la.timestamp, now)
               THEN /\ sent' = Reply(c, a, "TOO_LATE")
                    /\ UNCHANGED <<karma, stats, last_karma_minus>>
               ELSE /\ total.value \in (0 - MaxKarma)..MaxKarma
                    /\ stats' \in reset_user_reset_last_karma_change(stats, c, a)
                    /\ karma' = tbl
                    /\ last_karma_minus' =
                          IF <<c, la.user>> \in DOMAIN last_karma_minus
                          THEN [last_karma_minus EXCEPT ![<<c, la.user>>] =
                                   SelectSeq(@, LAMBDA e : e.who # a)]
                          ELSE last_karma_minus
                    /\ sent' = IF total.error THEN sent
                               ELSE Reply(c, a, "CANCELLED")

cancel_command(c, a) ==
    /\ UNCHANGED <<used_messages, last_actions, last_karma_minus, now,
                   calls, pc, args, result, top, parservars, threadvars>>
    /\ IF <<c, a>> \notin DOMAIN last_actions
       THEN /\ sent' = Reply(c, a, "NOTHING_TO_CANCEL")
            /\ UNCHANGED <<karma, stats>>
       ELSE LET la == last_actions[<<c, a>>]
                tbl == change_user_karma(karma, c, la.user, 0 - la.value)
                total == get_user_karma(tbl, c, la.user)
            IN IF grace_expired(la.timestamp, now)
               THEN /\ sent' = Reply(c, a, "TOO_LATE")
                    /\ UNCHANGED <<karma, stats>>
               ELSE /\ total.value \in (0 - MaxKarma)..MaxKarma
                    /\ stats' \in reset_user_reset_last_karma_change(stats, c, a)
                    /\ karma' = tbl
                    /\ sent' = IF total.error THEN sent
                               ELSE Reply(c, a, "CANCELLED")

----------------------------------------------------------------------------
(* The clock *)

Tick(t) ==
    /\ StartTime + t > now
    /\ now' = StartTime + t
    /\ UNCHANGED <<karma, stats, used_messages, last_actions,
                   last_karma_minus, sent, calls, pc, args, result, top,
                   parservars, threadvars>>

----------------------------------------------------------------------------
(* Spec: updates handled one at a time *)

\* No phrase list is loaded and no AnnouncementsThread exists
NoParser ==
    /\ RAISE_COMMANDS = <<>>
    /\ LOWER_COMMANDS = <<>>
    /\ parsed = <<>>

NoThread ==
    /\ chats = <<>>
    /\ last_chats_change_time = 0 - 1
    /\ all_chats = {}
    /\ all_announcements = <<>>
    /\ thread = <<>>

NoStore ==
    /\ calls = <<>>
    /\ pc = <<>>
    /\ args = <<>>
    /\ result = <<>>
    /\ top = <<>>
    /\ NoParser
    /\ NoThread

Init ==
    /\ karma = <<>>
    /\ stats = <<>>
    /\ used_messages = {}
    /\ last_actions = <<>>
    /\ last_karma_minus = <<>>
    /\ now = StartTime
    /\ sent = Reply(0, 0, "")
    /\ NoStore

Next ==
    \/ \E c \in Chats, a \in Actors, m \in Messages, pm \in {"NOTHING", "RAISE", "LOWER"} :
          message_handler(c, a, m, pm)
    \/ \E c \in Chats, a \in Actors : cancel_command(c, a)
    \/ \E t \in Instants : Tick(t)

Spec == Init /\ [][Next]_vars

----------------------------------------------------------------------------
(* SpecThree: the updates of two users in a chat with a third user who is    *)
(* not a bot, handled one at a time                                           *)

\* One message of each of the three users 1, 2 and 4
ThreeMessages == {1, 2, 5}

NextThree ==
    \/ \E c \in Chats, a \in Actors, m \in ThreeMessages,
          pm \in {"NOTHING", "RAISE", "LOWER"} :
          message_handler(c, a, m, pm)
    \/ \E t \in Instants : Tick(t)

SpecThree == Init /\ [][NextThree]_vars

----------------------------------------------------------------------------
(* SpecKarma: change_user_karma called sequentially *)

MaxCalls == 3
MaxAmount == 2

KarmaKeys == {<<1, 1>>, <<1, 2>>, <<2, 1>>}
Deltas == {0 - 1, 1, 2}
Procs == {1, 2}

NoHandler ==
    /\ stats = <<>>
    /\ used_messages = {}
    /\ last_actions = <<>>
    /\ last_karma_minus = <<>>
    /\ now = StartTime
    /\ sent = Reply(0, 0, "")
    /\ NoParser
    /\ NoThread

\* calls[k] lists the changes of the change_user_karma calls made on key k
InitKarma ==
    /\ karma = <<>>
    /\ calls = [k \in KarmaKeys |-> <<>>]
    /\ pc = <<>>
    /\ args = <<>>
    /\ result = <<>>
    /\ top = <<>>
    /\ NoHandler

RECURSIVE SumSeq(_)
SumSeq(q) == IF q = <<>> THEN 0 ELSE Head(q) + SumSeq(Tail(q))

RECURSIVE SumLen(_, _)
SumLen(f, K) ==
    IF K = {} THEN 0
    ELSE LET k == CHOOSE x \in K : TRUE IN Len(f[k]) + SumLen(f, K \ {k})

CallsMade == SumLen(calls, KarmaKeys)

\* One change_user_karma(c, u, change) call, from its select to its insert or update
ChangeUserKarma(c, u, change) ==
    /\ CallsMade < MaxCalls
    /\ karma' = change_user_karma(karma, c, u, change)
    /\ calls' = [calls EXCEPT ![<<c, u>>] = Append(@, change)]
    /\ top' = <<>>
    /\ UNCHANGED <<stats, used_messages, last_actions, last_karma_minus, now, sent,
                   pc, args, result, parservars, threadvars>>

NextKarma ==
    \E k \in KarmaKeys, change \in Deltas : ChangeUserKarma(k[1], k[2], change)

SpecKarma == InitKarma /\ [][NextKarma]_vars

----------------------------------------------------------------------------
(* SpecRace: change_user_karma calls of concurrent handlers, statement by       *)
(* statement, and get_ordered_karma_top queries                                 *)

InitRace ==
    /\ karma = <<>>
    /\ calls = [k \in KarmaKeys |-> <<>>]
    /\ pc = [p \in Procs |-> "idle"]
    /\ args = [p \in Procs |-> <<>>]
    /\ result = [p \in Procs |-> <<>>]
    /\ top = <<>>
    /\ NoHandler

HandlerUnchanged ==
    UNCHANGED <<stats, used_messages, last_actions, last_karma_minus, now, sent,
                parservars, threadvars>>

\* A handler enters change_user_karma(c, u, change)
Call(p, c, u, change) ==
    /\ pc[p] = "idle"
    /\ CallsMade < MaxCalls
    /\ args' = [args EXCEPT ![p] = <<c, u, change>>]
    /\ calls' = [calls EXCEPT ![<<c, u>>] = Append(@, change)]
    /\ pc' = [pc EXCEPT ![p] = "select"]
    /\ UNCHANGED <<karma, result, top>>
    /\ HandlerUnchanged

\* result = run_single_query('select * from karma where chat_id = .. and user_id = ..')
Select(p) ==
    /\ pc[p] = "select"
    /\ result' = [result EXCEPT ![p] = SelectRows(karma, args[p][1], args[p][2])]
    /\ pc' = [pc EXCEPT ![p] = "write"]
    /\ UNCHANGED <<karma, calls, args, top>>
    /\ HandlerUnchanged

\* len(result) == 0: the insert statement adds a row
Insert(p) ==
    /\ pc[p] = "write"
    /\ Len(result[p]) = 0
    /\ karma' = InsertKarma(karma, args[p][1], args[p][2], args[p][3])
    /\ pc' = [pc EXCEPT ![p] = "idle"]
    /\ UNCHANGED <<calls, args, result, top>>
    /\ HandlerUnchanged

\* len(result) == 0, and a row of the key was inserted since the select: under a
\* schema with a unique key on (chat_id, user_id) the insert statement fails and
\* change_user_karma raises
InsertRejected(p) ==
    /\ pc[p] = "write"
    /\ Len(result[p]) = 0
    /\ Len(SelectRows(karma, args[p][1], args[p][2])) > 0
    /\ pc' = [pc EXCEPT ![p] = "idle"]
    /\ UNCHANGED <<karma, calls, args, result, top>>
    /\ HandlerUnchanged

\* len(result) != 0: the update statement
Update(p) ==
    /\ pc[p] = "write"
    /\ Len(result[p]) # 0
    /\ karma' = UpdateKarma(karma, args[p][1], args[p][2], args[p][3])
    /\ pc' = [pc EXCEPT ![p] = "idle"]
    /\ UNCHANGED <<calls, args, result, top>>
    /\ HandlerUnchanged

NextRace ==
    \/ \E p \in Procs, k \in KarmaKeys, change \in Deltas : Call(p, k[1], k[2], change)
    \/ \E p \in Procs : Select(p)
    \/ \E p \in Procs : Insert(p)
    \/ \E p \in Procs : InsertRejected(p)
    \/ \E p \in Procs : Update(p)

SpecRace == InitRace /\ [][NextRace]_vars

----------------------------------------------------------------------------
(* SpecTop: get_ordered_karma_top queries on the tables that calls leave *)

\* The insert of a change_user_karma(c, u, change) call whose select ran before
\* the insert of another call on the same key: the key gets a second row
RacedInsert(c, u, change) ==
    /\ CallsMade < MaxCalls
    /\ Len(SelectRows(karma, c, u)) > 0
    /\ karma' = InsertKarma(karma, c, u, change)
    /\ calls' = [calls EXCEPT ![<<c, u>>] = Append(@, change)]
    /\ top' = <<>>
    /\ HandlerUnchanged
    /\ UNCHANGED <<pc, args, result>>

\* A get_ordered_karma_top(c, amount, biggest) call and the list it returned; top
\* holds the last query made on the table as it is
GetOrderedKarmaTop(c, amount, biggest) ==
    /\ \E rows \in get_ordered_karma_top(karma, c, amount, biggest) :
          top' = <<[chat_id |-> c, amount |-> amount, biggest |-> biggest, rows |-> rows]>>
    /\ UNCHANGED <<karma, calls, pc, args, result>>
    /\ HandlerUnchanged

NextTop ==
    \/ \E k \in KarmaKeys, change \in Deltas : ChangeUserKarma(k[1], k[2], change)
    \/ \E k \in KarmaKeys, change \in Deltas : RacedInsert(k[1], k[2], change)
    \/ \E c \in {1, 2}, amount \in 1..MaxAmount, biggest \in BOOLEAN :
          GetOrderedKarmaTop(c, amount, biggest)

SpecTop == InitKarma /\ [][NextTop]_vars

----------------------------------------------------------------------------
(* message_parser.py: _parse_message. SpecParse: calls of it under each       *)
(* configuration of the phrase lists                                          *)

MaxMsgLen == 2

\* A string is the sequence of its characters
Chars == {"a", "A", "b", "B"}
Texts == UNION { [1..n -> Chars] : n \in 0..MaxMsgLen }
\* The phrases karma_conf.json may list
Phrases == { <<"a">>, <<"a", "b">>, <<"A">>, <<"b">> }
PhraseLists == {<<>>} \cup { <<x>> : x \in Phrases } \cup (Phrases \X Phrases)

lower_char(ch) == IF ch = "A" THEN "a" ELSE IF ch = "B" THEN "b" ELSE ch

\* str.lower()
lower(str) == [i \in DOMAIN str |-> lower_char(str[i])]

\* str.startswith(prefix)
startswith(str, prefix) ==
    /\ Len(prefix) <= Len(str)
    /\ SubSeq(str, 1, Len(prefix)) = prefix

\* _parse_message(msg) with the phrase lists raise_commands and lower_commands
parse_message(raise_commands, lower_commands, msg) ==
    LET msg_lower == lower(msg)
    IN IF \E i \in DOMAIN raise_commands : startswith(msg_lower, raise_commands[i])
       THEN "RAISE"
       ELSE IF \E i \in DOMAIN lower_commands : startswith(msg_lower, lower_commands[i])
       THEN "LOWER"
       ELSE "NOTHING"

\* The module is imported: karma_conf.json is loaded into the two lists
InitParse ==
    /\ RAISE_COMMANDS \in PhraseLists
    /\ LOWER_COMMANDS \in PhraseLists
    /\ parsed = <<>>
    /\ karma = <<>>
    /\ stats = <<>>
    /\ used_messages = {}
    /\ last_actions = <<>>
    /\ last_karma_minus = <<>>
    /\ now = StartTime
    /\ sent = Reply(0, 0, "")
    /\ NoThread
    /\ calls = <<>>
    /\ pc = <<>>
    /\ args = <<>>
    /\ result = <<>>
    /\ top = <<>>

\* A _parse_message(msg) call and its result
ParseMessage(msg) ==
    /\ parsed' = <<[msg |-> msg,
                    result |-> parse_message(RAISE_COMMANDS, LOWER_COMMANDS, msg)]>>
    /\ UNCHANGED <<karma, stats, used_messages, last_actions, last_karma_minus, now,
                   sent, calls, pc, args, result, top, RAISE_COMMANDS, LOWER_COMMANDS,
                   threadvars>>

NextParse == \E msg \in Texts : ParseMessage(msg)

SpecParse == InitParse /\ [][NextParse]_vars

----------------------------------------------------------------------------
(* message_parser.py: AnnouncementsThread. SpecThread: the thread is           *)
(* constructed and runs, one send attempt at a time                            *)

MaxRounds == 2

\* 5*60 seconds between reloads of the chat list
ReloadPeriod == 300
\* i == 10 ends _try_send_message with TimeoutError
AttemptLimit == 10
\* time.sleep(2) after a chat, time.sleep(10*60) after a round
SendPause == 2
LoopPause == 600

ThreadChats == {1, 2}
AnnouncementLists == { <<>>, <<1>>, <<1, 2>> }
\* e.retry_after of a RetryAfter error, in seconds
RetryDelays == {1}

RECURSIVE SortedSeq(_)
SortedSeq(S) ==
    IF S = {} THEN <<>>
    ELSE LET x == CHOOSE y \in S : \A z \in S : y <= z
         IN <<x>> \o SortedSeq(S \ {x})

\* ChatsManager().get_all_chats()
get_all_chats(table) == SortedSeq(table)

\* ChatsManager().remove_chat(chat_id)
remove_chat(table, chat_id) == table \ {chat_id}

\* am.delete_announcement(id_)
delete_announcement(table, id) == SelectSeq(table, LAMBDA x : x # id)

\* change_chats_if_needed at time current_time: whether it reloads the list
change_chats_if_needed(current_time) ==
    LET time_change == current_time - last_chats_change_time
    IN time_change > ReloadPeriod

\* The thread's log after a change_chats_if_needed call: the get_all_chats
\* queries made and the time of the last one
LogReload(th, reloaded, t) ==
    IF reloaded
    THEN [th EXCEPT !.queries = @ + 1, !.last_reload = <<t>>, !.reloaded = TRUE]
    ELSE [th EXCEPT !.reloaded = FALSE]

InitThread ==
    /\ chats = <<>>
    /\ last_chats_change_time = 0 - 1
    /\ all_chats \in SUBSET ThreadChats
    /\ all_announcements \in AnnouncementLists
    /\ thread = [pc |-> "new", announcements |-> <<>>, a |-> 0, c |-> 0, i |-> 0,
                 attempts |-> 0, done |-> {}, rounds |-> 0,
                 queries |-> 0, last_reload |-> <<>>, reloaded |-> FALSE]
    /\ now = StartTime
    /\ karma = <<>>
    /\ stats = <<>>
    /\ used_messages = {}
    /\ last_actions = <<>>
    /\ last_karma_minus = <<>>
    /\ sent = Reply(0, 0, "")
    /\ calls = <<>>
    /\ pc = <<>>
    /\ args = <<>>
    /\ result = <<>>
    /\ top = <<>>
    /\ NoParser

ThreadUnchanged ==
    UNCHANGED <<karma, stats, used_messages, last_actions, last_karma_minus, sent,
                calls, pc, args, result, top, parservars, last_chats_change_time>>

\* __init__: the change_chats_if_needed call of the constructor
Construct ==
    /\ thread.pc = "new"
    /\ LET reloaded == change_chats_if_needed(now)
       IN /\ chats' = IF reloaded THEN get_all_chats(all_chats) ELSE chats
          /\ thread' = [LogReload(thread, reloaded, now) EXCEPT !.pc = "loop"]
    /\ UNCHANGED <<now, all_chats, all_announcements>>
    /\ ThreadUnchanged

\* run: the top of the while loop: change_chats_if_needed, get_all_announcements,
\* and with no announcement the sleep of 10 minutes
LoopTop ==
    /\ thread.pc = "loop"
    /\ thread.rounds < MaxRounds
    /\ LET reloaded == change_chats_if_needed(now)
           th == [LogReload(thread, reloaded, now) EXCEPT !.rounds = @ + 1]
       IN /\ chats' = IF reloaded THEN get_all_chats(all_chats) ELSE chats
          /\ IF all_announcements = <<>>
             THEN /\ thread' = th
                  /\ now' = now + LoopPause
             ELSE /\ thread' = [th EXCEPT !.pc = "announce",
                                          !.announcements = all_announcements,
                                          !.a = 1, !.c = 1, !.done = {}]
                  /\ now' = now
    /\ UNCHANGED <<all_chats, all_announcements>>
    /\ ThreadUnchanged

\* The thread is in _try_send_message(chats[c], msg) for announcement a
Sending ==
    /\ thread.pc = "announce"
    /\ thread.c <= Len(chats)

\* The call returns (succ): time.sleep(2), then the next chat
Returned(th) ==
    [th EXCEPT !.i = 0, !.c = @ + 1, !.done = @ \cup {chats[th.c]}]

\* A loop iteration of _try_send_message that makes a send: i += 1, i != 10; the
\* attempts of a call are counted from its first iteration
Attempted(th) ==
    [th EXCEPT !.i = @ + 1, !.attempts = IF th.i = 0 THEN 1 ELSE @ + 1]

\* bot.send_message returns
SendOk ==
    /\ Sending
    /\ thread.i + 1 # AttemptLimit
    /\ thread' = Returned(Attempted(thread))
    /\ now' = now + SendPause
    /\ UNCHANGED <<chats, all_chats, all_announcements>>
    /\ ThreadUnchanged

\* bot.send_message raises TimedOut: one more iteration
SendTimedOut ==
    /\ Sending
    /\ thread.i + 1 # AttemptLimit
    /\ thread' = Attempted(thread)
    /\ UNCHANGED <<now, chats, all_chats, all_announcements>>
    /\ ThreadUnchanged

\* bot.send_message raises RetryAfter: time.sleep(e.retry_after), one more iteration
SendRetryAfter(retry_after) ==
    /\ Sending
    /\ thread.i + 1 # AttemptLimit
    /\ thread' = Attempted(thread)
    /\ now' = now + retry_after
    /\ UNCHANGED <<chats, all_chats, all_announcements>>
    /\ ThreadUnchanged

\* bot.send_message raises Unauthorized: the chat is removed from the table
SendUnauthorized ==
    /\ Sending
    /\ thread.i + 1 # AttemptLimit
    /\ thread' = Returned(Attempted(thread))
    /\ all_chats' = remove_chat(all_chats, chats[thread.c])
    /\ now' = now + SendPause
    /\ UNCHANGED <<chats, all_announcements>>
    /\ ThreadUnchanged

\* bot.send_message raises another exception: it is reported
SendException ==
    /\ Sending
    /\ thread.i + 1 # AttemptLimit
    /\ thread' = Returned(Attempted(thread))
    /\ now' = now + SendPause
    /\ UNCHANGED <<chats, all_chats, all_announcements>>
    /\ ThreadUnchanged

\* i == 10: raise TimeoutError, which nothing in run catches: the thread ends
RaiseTimeoutError ==
    /\ Sending
    /\ thread.i + 1 = AttemptLimit
    /\ thread' = [thread EXCEPT !.i = @ + 1, !.pc = "dead"]
    /\ UNCHANGED <<now, chats, all_chats, all_announcements>>
    /\ ThreadUnchanged

\* The loop over the chats is over: am.delete_announcement(id_), then the next
\* announcement, or time.sleep(10*60) after the last one
DeleteAnnouncement ==
    /\ thread.pc = "announce"
    /\ thread.c > Len(chats)
    /\ all_announcements' =
          delete_announcement(all_announcements, thread.announcements[thread.a])
    /\ IF thread.a < Len(thread.announcements)
       THEN /\ thread' = [thread EXCEPT !.a = @ + 1, !.c = 1, !.done = {}]
            /\ now' = now
       ELSE /\ thread' = [thread EXCEPT !.pc = "loop", !.announcements = <<>>,
                                        !.a = 0, !.c = 0, !.done = {}]
            /\ now' = now + LoopPause
    /\ UNCHANGED <<chats, all_chats>>
    /\ ThreadUnchanged

NextThread ==
    \/ Construct
    \/ LoopTop
    \/ SendOk
    \/ SendTimedOut
    \/ \E retry_after \in RetryDelays : SendRetryAfter(retry_after)
    \/ SendUnauthorized
    \/ SendException
    \/ RaiseTimeoutError
    \/ DeleteAnnouncement

\* The thread is scheduled: a step it can take is taken
SpecThread == InitThread /\ [][NextThread]_vars /\ WF_vars(NextThread)

----------------------------------------------------------------------------
(* SpecSteps: message_handler calls of updates handled concurrently. A call    *)
(* takes one step per database call, and a database call may fail.             *)

StepMessages == {1, 2, 3}
StepKeys == Chats \X Actors \X StepMessages

\* calls[<<c, a, m>>] lists the karma changes made by the handlers of the events
\* of actor a on message m
InitSteps ==
    /\ karma = <<>>
    /\ stats = <<>>
    /\ used_messages = {}
    /\ last_actions = <<>>
    /\ last_karma_minus = <<>>
    /\ now = StartTime
    /\ sent = Reply(0, 0, "")
    /\ calls = [k \in StepKeys |-> <<>>]
    /\ pc = [p \in Procs |-> "idle"]
    /\ args = [p \in Procs |-> <<>>]
    /\ result = [p \in Procs |-> <<>>]
    /\ top = <<>>
    /\ NoParser
    /\ NoThread

\* The handler p returns
Return(p) ==
    /\ pc' = [pc EXCEPT ![p] = "idle"]
    /\ args' = [args EXCEPT ![p] = <<>>]
    /\ result' = [result EXCEPT ![p] = <<>>]

\* message_handler is called for a RAISE or LOWER reply of a to message m: the
\* tests of the self target and the bot target
HandlerStart(p, c, a, m, pm) ==
    /\ pc[p] = "idle"
    /\ IF a = Author(m)
       THEN sent' = Reply(c, a, "SELF") /\ UNCHANGED <<pc, args>>
       ELSE IF is_bot(Author(m))
       THEN sent' = Reply(c, a, "BOT") /\ UNCHANGED <<pc, args>>
       ELSE /\ pc' = [pc EXCEPT ![p] = "check"]
            /\ args' = [args EXCEPT ![p] = <<c, a, m, pm>>]
            /\ sent' = sent
    /\ UNCHANGED <<karma, stats, used_messages, last_actions, last_karma_minus, now,
                   calls, result, top, parservars, threadvars>>

\* km.check_could_user_change_karma(chat_id, from_user_id, ...)
HandlerCheck(p) ==
    /\ pc[p] = "check"
    /\ LET c == args[p][1]
           a == args[p][2]
           check == check_could_user_change_karma(stats, c, a, args[p][4] = "RAISE", now)
       IN IF check[1] = "OK"
          THEN /\ result' = [result EXCEPT ![p] = check]
               /\ pc' = [pc EXCEPT ![p] = "test"]
               /\ UNCHANGED <<args, sent>>
          ELSE /\ sent' = Reply(c, a, check[1])
               /\ Return(p)
    /\ UNCHANGED <<karma, stats, used_messages, last_actions, last_karma_minus, now,
                   calls, top, parservars, threadvars>>

\* The loop over last_karma_minus, then MessagesManager().is_user_changed_karma_on_message
HandlerTest(p) ==
    /\ pc[p] = "test"
    /\ LET c == args[p][1]
           a == args[p][2]
           m == args[p][3]
       IN IF revenge_blocked(last_karma_minus, c, a, Author(m), now)
          THEN sent' = Reply(c, a, "REVENGE") /\ Return(p)
          ELSE IF is_user_changed_karma_on_message(used_messages, c, a, m)
          THEN sent' = Reply(c, a, "DUPLICATE") /\ Return(p)
          ELSE /\ pc' = [pc EXCEPT ![p] = "mark"]
               /\ UNCHANGED <<args, result, sent>>
    /\ UNCHANGED <<karma, stats, used_messages, last_actions, last_karma_minus, now,
                   calls, top, parservars, threadvars>>

\* MessagesManager().mark_message_as_used(chat_id, from_user_id, message_id)
HandlerMark(p) ==
    /\ pc[p] = "mark"
    /\ used_messages' = mark_message_as_used(used_messages, args[p][1], args[p][2], args[p][3])
    /\ pc' = [pc EXCEPT ![p] = "stats"]
    /\ UNCHANGED <<karma, stats, last_actions, last_karma_minus, now, sent,
                   calls, args, result, top, parservars, threadvars>>

\* StatsManager().handle_user_change_karma(chat_id, from_user_id)
HandlerStats(p) ==
    /\ pc[p] = "stats"
    /\ stats' = handle_user_change_karma(stats, args[p][1], args[p][2], now)
    /\ pc' = [pc EXCEPT ![p] = "karma"]
    /\ UNCHANGED <<karma, used_messages, last_actions, last_karma_minus, now, sent,
                   calls, args, result, top, parservars, threadvars>>

\* km.increase_user_karma or km.decrease_user_karma, the writes of last_actions
\* and last_karma_minus, and the reply
HandlerChange(p) ==
    /\ pc[p] = "karma"
    /\ LET c == args[p][1]
           a == args[p][2]
           m == args[p][3]
           pm == args[p][4]
           u == Author(m)
           value == result[p][2]
       IN /\ karma' = IF pm = "RAISE" THEN increase_user_karma(karma, c, u, value)
                      ELSE decrease_user_karma(karma, c, u, value)
          /\ last_actions' =
                record_last_action(c, a, u, IF pm = "RAISE" THEN value ELSE 0 - value)
          /\ last_karma_minus' = record_karma_minus(c, a, u, pm)
          /\ calls' = [calls EXCEPT ![<<c, a, m>>] =
                          Append(@, IF pm = "RAISE" THEN value ELSE 0 - value)]
          /\ sent' = Reply(c, a, IF pm = "RAISE" THEN "RAISED" ELSE "LOWERED")
    /\ Return(p)
    /\ UNCHANGED <<stats, used_messages, now, top, parservars, threadvars>>

\* The database call the handler p is at raises (connection lost, DatabaseError):
\* the exception leaves message_handler, and what the handler wrote stays
HandlerFail(p) ==
    /\ pc[p] \in {"check", "test", "mark", "stats", "karma"}
    /\ Return(p)
    /\ UNCHANGED <<karma, stats, used_messages, last_actions, last_karma_minus, now,
                   sent, calls, top, parservars, threadvars>>

NextSteps ==
    \/ \E p \in Procs, c \in Chats, a \in Actors, m \in StepMessages,
          pm \in {"RAISE", "LOWER"} :
          HandlerStart(p, c, a, m, pm)
    \/ \E p \in Procs : HandlerCheck(p)
    \/ \E p \in Procs : HandlerTest(p)
    \/ \E p \in Procs : HandlerMark(p)
    \/ \E p \in Procs : HandlerStats(p)
    \/ \E p \in Procs : HandlerChange(p)
    \/ \E p \in Procs : HandlerFail(p)

SpecSteps == InitSteps /\ [][NextSteps]_vars

----------------------------------------------------------------------------
(* Properties of Spec *)

Events == {"RAISE", "LOWER"}
Denials == {"SELF", "BOT", "REVENGE", "DUPLICATE", "TIMEOUT", "CHANGE_DENIED",
            "DAY_MAX_EXCEED"}

\* The karma of user u in chat c as the table tbl holds it
Score(tbl, c, u) == get_user_karma(tbl, c, u).value

\* The stats row of actor a is of the current UTC day and counts n changes or more
CountedToday(c, a, n) ==
    /\ <<c, a>> \in DOMAIN stats
    /\ stats[<<c, a>>].today = now \div 86400
    /\ stats[<<c, a>>].today_karma_changes >= n

\* A decrease of a's karma by u is recorded with an age of 120 seconds at most
LoweredRecentlyBy(c, a, u) ==
    /\ <<c, a>> \in DOMAIN last_karma_minus
    /\ \E i \in 1..Len(last_karma_minus[<<c, a>>]) :
          /\ last_karma_minus[<<c, a>>][i].who = u
          /\ now - last_karma_minus[<<c, a>>][i].date <= 120

\* The event is a reply to a message of another user who is not a bot
Eligible(a, m) == Author(m) # a /\ Author(m) \notin Bots

\* C1 (as claimed): an undo that directly follows the actor's admitted change
\* restores the target's score to its value before the change, and an undo that
\* directly follows the actor's own successful undo, with no admitted change in
\* between, fails with "no prior action" and leaves every score as it is.
C1_UndoOnlyOnce ==
    [][\A c \in Chats, a \in Actors :
          /\ ( /\ sent \in {Reply(c, a, "RAISED"), Reply(c, a, "LOWERED")}
               /\ now - last_actions[<<c, a>>].timestamp <= 120
               /\ cancel_command(c, a) )
             => LET la == last_actions[<<c, a>>]
                IN /\ sent' = Reply(c, a, "CANCELLED")
                   /\ Score(karma', c, la.user) = Score(karma, c, la.user) - la.value
          /\ ( sent = Reply(c, a, "CANCELLED") /\ cancel_command(c, a) )
             => /\ sent' = Reply(c, a, "NOTHING_TO_CANCEL")
                /\ karma' = karma
      ]_vars

\* C2 (as claimed): once the actor has scored message m, every later raise or
\* lower attempt of the actor on m is denied as a duplicate and changes no score.
C2_DeniedAsDuplicate ==
    [][\A c \in Chats, a \in Actors, m \in Messages, pm \in Events :
          ( <<c, a, m>> \in used_messages /\ message_handler(c, a, m, pm) )
          => /\ sent' = Reply(c, a, "DUPLICATE")
             /\ karma' = karma
      ]_vars

\* C2 (amended): an actor has at most one change admitted on a message: a change
\* is admitted only on a message the actor has no mark on, and it sets the mark;
\* once the mark is set, every later raise or lower attempt of the actor on the
\* message is denied and changes no score, and the denial is the duplicate one
\* unless the daily cap is reached or the revenge guard blocks the event.
C2_AtMostOncePerMessage ==
    [][\A c \in Chats, a \in Actors, m \in Messages, pm \in Events :
          message_handler(c, a, m, pm)
          => /\ (karma' # karma \/ sent'.text \in {"RAISED", "LOWERED"})
                => (<<c, a, m>> \notin used_messages /\ <<c, a, m>> \in used_messages')
             /\ <<c, a, m>> \in used_messages
                => /\ sent'.text \in {"DUPLICATE", "REVENGE", "DAY_MAX_EXCEED"}
                   /\ sent'.from = a
                   /\ karma' = karma
                   /\ used_messages' = used_messages
                   /\ ( ~CountedToday(c, a, DailyCap) /\ ~LoweredRecentlyBy(c, a, Author(m)) )
                      => sent'.text = "DUPLICATE"
      ]_vars

\* C2 witness: the actor was just denied as a duplicate on a message it has a mark on
C2_Witness ==
    /\ sent.text = "DUPLICATE"
    /\ \E m \in Messages : <<sent.chat, sent.from, m>> \in used_messages

C4_RevengeGuard ==
    [][\A c \in Chats, a \in Actors, m \in Messages :
          ( Eligible(a, m) /\ message_handler(c, a, m, "LOWER") )
          => LET u == Author(m)
             IN /\ sent'.text = "LOWERED"
                   => /\ <<c, u>> \in DOMAIN last_karma_minus'
                      /\ LET l == last_karma_minus'[<<c, u>>]
                         IN l[Len(l)] = [who |-> a, date |-> now]
                /\ LoweredRecentlyBy(c, a, u)
                   => /\ sent'.text \in {"REVENGE", "DAY_MAX_EXCEED"}
                      /\ karma' = karma
                      /\ ~CountedToday(c, a, DailyCap) => sent' = Reply(c, a, "REVENGE")
                /\ ~LoweredRecentlyBy(c, a, u) => sent'.text # "REVENGE"
      ]_vars

\* C4 witness: b was denied for revenge exactly 120 seconds after a lowering of b
C4_Witness ==
    /\ sent.text = "REVENGE"
    /\ \E i \in 1..Len(last_karma_minus[<<sent.chat, sent.from>>]) :
          now - last_karma_minus[<<sent.chat, sent.from>>][i].date = 120

\* C5 (as claimed): an event that fails the revenge check or the duplicate check
\* and also the daily cap gets the revenge or the duplicate denial.
C5_GuardsBeforeAdmission ==
    [][\A c \in Chats, a \in Actors, m \in Messages, pm \in Events :
          ( /\ Eligible(a, m)
            /\ message_handler(c, a, m, pm)
            /\ CountedToday(c, a, DailyCap)
            /\ (LoweredRecentlyBy(c, a, Author(m)) \/ <<c, a, m>> \in used_messages) )
          => sent'.text \in {"REVENGE", "DUPLICATE"}
      ]_vars

\* C5 (amended): the admission check comes first: an event that fails the daily
\* cap gets DAY_MAX_EXCEED also when the revenge check or the duplicate check
\* would fail too; below the cap the revenge check comes before the duplicate
\* check, so an event failing both gets the revenge denial.
C5_AdmissionBeforeGuards ==
    [][\A c \in Chats, a \in Actors, m \in Messages, pm \in Events :
          ( Eligible(a, m) /\ message_handler(c, a, m, pm) )
          => /\ ( /\ CountedToday(c, a, DailyCap)
                  /\ (LoweredRecentlyBy(c, a, Author(m)) \/ <<c, a, m>> \in used_messages) )
                => sent' = Reply(c, a, "DAY_MAX_EXCEED")
             /\ ( /\ ~CountedToday(c, a, DailyCap)
                  /\ LoweredRecentlyBy(c, a, Author(m))
                  /\ <<c, a, m>> \in used_messages )
                => sent' = Reply(c, a, "REVENGE")
      ]_vars

\* C5 witness: DAY_MAX_EXCEED was the answer to an actor that has a mark on every
\* message it could score, so the event was a duplicate as well
C5_Witness ==
    /\ sent.text = "DAY_MAX_EXCEED"
    /\ \A m \in Messages :
          Eligible(sent.from, m) => <<sent.chat, sent.from, m>> \in used_messages

\* C6: a raise or lower event that is denied (self target, bot target, verdict
\* other than OK, revenge, duplicate) leaves the scores, the stats rows, the
\* used-message marks, last_karma_minus and last_actions as they were.
C6_DenialChangesNothing ==
    [][\A c \in Chats, a \in Actors, m \in Messages, pm \in Events :
          message_handler(c, a, m, pm)
          => /\ ( \/ Author(m) = a
                  \/ Author(m) \in Bots
                  \/ CountedToday(c, a, DailyCap)
                  \/ LoweredRecentlyBy(c, a, Author(m))
                  \/ <<c, a, m>> \in used_messages )
                => sent'.text \in Denials
             /\ sent'.text \in Denials
                => UNCHANGED <<karma, stats, used_messages, last_karma_minus, last_actions>>
      ]_vars

\* C6 witness: an event was denied for revenge with scores, marks and last
\* actions present
C6_Witness ==
    /\ sent.text = "REVENGE"
    /\ karma # <<>>
    /\ used_messages # {}
    /\ DOMAIN last_actions # {}

\* C7: an event whose actor is the author of the message replied to is denied as
\* a self change and changes no score, whatever the actor's count, marks and
\* revenge records are.
C7_SelfDenied ==
    [][\A c \in Chats, a \in Actors, m \in Messages, pm \in Events :
          ( Author(m) = a /\ message_handler(c, a, m, pm) )
          => /\ sent' = Reply(c, a, "SELF")
             /\ UNCHANGED <<karma, stats, used_messages, last_karma_minus, last_actions>>
      ]_vars

\* C7 witness: a self change was denied for an actor at the daily cap who has a
\* lowering recorded against it
C7_Witness ==
    /\ sent.text = "SELF"
    /\ CountedToday(sent.chat, sent.from, DailyCap)
    /\ <<sent.chat, sent.from>> \in DOMAIN last_karma_minus

\* C11: an undo request of an actor with no last_actions entry is answered "nothing
\* to cancel", and one whose entry is older than 120 seconds is answered "too
\* late"; both leave every score and every stats row as they are; an undo changes
\* a score only when the actor has an entry of at most 120 seconds ago; and an
\* entry of exactly 120 seconds ago is undone: the target's score is changed back
\* by the entry's value.
C11_UndoFailures ==
    [][\A c \in Chats, a \in Actors :
          cancel_command(c, a)
          => /\ <<c, a>> \notin DOMAIN last_actions
                => /\ sent' = Reply(c, a, "NOTHING_TO_CANCEL")
                   /\ UNCHANGED <<karma, stats>>
             /\ <<c, a>> \in DOMAIN last_actions
                => LET la == last_actions[<<c, a>>]
                   IN /\ now - la.timestamp > 120
                         => /\ sent' = Reply(c, a, "TOO_LATE")
                            /\ UNCHANGED <<karma, stats>>
                      /\ now - la.timestamp = 120
                         => /\ sent' = Reply(c, a, "CANCELLED")
                            /\ Score(karma', c, la.user) = Score(karma, c, la.user) - la.value
             /\ karma' # karma
                => /\ <<c, a>> \in DOMAIN last_actions
                   /\ now - last_actions[<<c, a>>].timestamp <= 120
      ]_vars

\* C11 witness: an undo was refused as too late, 121 seconds after the action, with
\* the action's score still in the table
C11_Witness ==
    /\ sent.text = "TOO_LATE"
    /\ now - last_actions[<<sent.chat, sent.from>>].timestamp = 121
    /\ karma # <<>>

\* C12: last_actions has one entry per (chat, actor); an admitted action replaces
\* the actor's entry by (target, signed change, time) of that action and touches no
\* other entry; the entry of an actor changes only by an admitted action of that
\* actor; and a successful undo changes the score of the entry's target by minus
\* the entry's value and no other score, so that only the later of two admitted
\* actions is reversed.
C12_OnlyLastActionUndone ==
    [][/\ \A c \in Chats, a \in Actors, m \in Messages, pm \in Events :
             ( message_handler(c, a, m, pm) /\ sent'.text \in {"RAISED", "LOWERED"} )
             => /\ DOMAIN last_actions' = DOMAIN last_actions \cup {<<c, a>>}
                /\ last_actions'[<<c, a>>] =
                      [user |-> Author(m),
                       value |-> IF pm = "RAISE" THEN ChangeUnit ELSE 0 - ChangeUnit,
                       timestamp |-> now]
                /\ \A k \in DOMAIN last_actions \ {<<c, a>>} :
                      last_actions'[k] = last_actions[k]
       /\ \A c \in Chats, a \in Actors :
             ( /\ <<c, a>> \in DOMAIN last_actions
               /\ last_actions'[<<c, a>>] # last_actions[<<c, a>>] )
             => \E m \in Messages, pm \in Events :
                   message_handler(c, a, m, pm) /\ sent'.text \in {"RAISED", "LOWERED"}
       /\ \A c \in Chats, a \in Actors :
             ( cancel_command(c, a) /\ sent'.text = "CANCELLED" )
             => LET la == last_actions[<<c, a>>]
                IN \A u \in Users :
                      Score(karma', c, u) =
                         Score(karma, c, u) - (IF u = la.user THEN la.value ELSE 0)
      ]_vars

\* C12 witness: an actor with two admitted actions on the same target has undone
\* one: the target's score is what the other action, of the opposite sign, made it
C12_Witness ==
    /\ sent.text = "CANCELLED"
    /\ Cardinality({m \in Messages : <<sent.chat, sent.from, m>> \in used_messages}) >= 2
    /\ LET la == last_actions[<<sent.chat, sent.from>>]
       IN Score(karma, sent.chat, la.user) = 0 - la.value

\* C13: an admitted action leaves one stats row for (chat, actor): with no row
\* before, a row counting 1 for the current UTC date; with a row of the current
\* date, its counter plus 1; with a row of another date, the counter 1 and the
\* current date; in each case last_karma_change is the current time, and the rows
\* of the other actors are as before.
C13_LedgerRecord ==
    [][\A c \in Chats, a \in Actors, m \in Messages, pm \in Events :
          ( message_handler(c, a, m, pm) /\ sent'.text \in {"RAISED", "LOWERED"} )
          => LET k == <<c, a>>
             IN /\ DOMAIN stats' = DOMAIN stats \cup {k}
                /\ stats'[k].last_karma_change = <<now>>
                /\ stats'[k].today = now \div 86400
                /\ stats'[k].today_karma_changes =
                      IF k \notin DOMAIN stats THEN 1
                      ELSE IF stats[k].today = now \div 86400
                      THEN stats[k].today_karma_changes + 1
                      ELSE 1
                /\ \A x \in DOMAIN stats \ {k} : stats'[x] = stats[x]
      ]_vars

\* C13 witness: an actor's second admitted action, made on a later date than the
\* first, left a row of the current date counting 1
C13_Witness ==
    /\ sent.text \in {"RAISED", "LOWERED"}
    /\ Cardinality({m \in Messages : <<sent.chat, sent.from, m>> \in used_messages}) >= 2
    /\ LET row == stats[<<sent.chat, sent.from>>]
       IN /\ row.today = now \div 86400
          /\ row.today_karma_changes = 1
          /\ row.last_karma_change = <<now>>

\* The actor a has just undone its last action: the reply to the undo is the
\* last message sent, and last_actions still holds the action undone
JustUndone(c, a) ==
    /\ sent = Reply(c, a, "CANCELLED")
    /\ <<c, a>> \in DOMAIN last_actions

\* C21 (as claimed): an undo leaves the used-message marks and last_karma_minus
\* as they were; after it the actor's next attempt on a message it has a mark
\* on is denied as a duplicate and changes no score, and after the undo of a
\* lowering the target's attempt on a message of the actor, up to 120 seconds
\* after the lowering, is denied for revenge and changes no score.
C21_UndoKeepsGuards ==
    [][/\ \A c \in Chats, a \in Actors :
             cancel_command(c, a) => UNCHANGED <<used_messages, last_karma_minus>>
       /\ \A c \in Chats, a \in Actors, m \in Messages, pm \in Events :
             ( /\ JustUndone(c, a)
               /\ <<c, a, m>> \in used_messages
               /\ message_handler(c, a, m, pm) )
             => /\ sent' = Reply(c, a, "DUPLICATE")
                /\ karma' = karma
       /\ \A c \in Chats, a \in Actors, m \in Messages, pm \in Events :
             ( /\ JustUndone(c, a)
               /\ last_actions[<<c, a>>].value < 0
               /\ now - last_actions[<<c, a>>].timestamp <= 120
               /\ Author(m) = a
               /\ message_handler(c, last_actions[<<c, a>>].user, m, pm) )
             => /\ sent' = Reply(c, last_actions[<<c, a>>].user, "REVENGE")
                /\ karma' = karma
      ]_vars

\* C21 (amended): an undo leaves the used-message marks and last_karma_minus as
\* they were; after it the actor's next attempt on a message it has a mark on is
\* denied and changes no score, with the duplicate denial unless the actor is at
\* the daily cap or the revenge guard blocks the attempt; and after the undo of
\* a lowering the target's attempt on a message of the actor, up to 120 seconds
\* after the lowering, is denied and changes no score, with the revenge denial
\* unless the target is at the daily cap.
C21_UndoReversesScoreOnly ==
    [][/\ \A c \in Chats, a \in Actors :
             cancel_command(c, a) => UNCHANGED <<used_messages, last_karma_minus>>
       /\ \A c \in Chats, a \in Actors, m \in Messages, pm \in Events :
             ( /\ JustUndone(c, a)
               /\ <<c, a, m>> \in used_messages
               /\ message_handler(c, a, m, pm) )
             => /\ sent'.text \in {"DUPLICATE", "REVENGE", "DAY_MAX_EXCEED"}
                /\ sent'.from = a
                /\ karma' = karma
                /\ ( ~CountedToday(c, a, DailyCap) /\ ~LoweredRecentlyBy(c, a, Author(m)) )
                   => sent'.text = "DUPLICATE"
       /\ \A c \in Chats, a \in Actors, m \in Messages, pm \in Events :
             ( /\ JustUndone(c, a)
               /\ last_actions[<<c, a>>].value < 0
               /\ now - last_actions[<<c, a>>].timestamp <= 120
               /\ Author(m) = a
               /\ message_handler(c, last_actions[<<c, a>>].user, m, pm) )
             => LET u == last_actions[<<c, a>>].user
                IN /\ sent'.text \in {"REVENGE", "DAY_MAX_EXCEED"}
                   /\ sent'.from = u
                   /\ karma' = karma
                   /\ ~CountedToday(c, u, DailyCap) => sent'.text = "REVENGE"
      ]_vars

\* C21 witness: a user whose only lowering, by an actor with one scored message,
\* was undone (its score is 0 again) has just been denied for revenge
C21_Witness ==
    /\ sent.text = "REVENGE"
    /\ Score(karma, sent.chat, sent.from) = 0
    /\ <<sent.chat, sent.from>> \in DOMAIN last_karma_minus
    /\ \E a \in Actors :
          /\ \E i \in DOMAIN last_karma_minus[<<sent.chat, sent.from>>] :
                last_karma_minus[<<sent.chat, sent.from>>][i].who = a
          /\ Cardinality({m \in Messages : <<sent.chat, a, m>> \in used_messages}) = 1
          /\ <<sent.chat, a>> \in DOMAIN last_actions
          /\ last_actions[<<sent.chat, a>>].user = sent.from
          /\ last_actions[<<sent.chat, a>>].value < 0

----------------------------------------------------------------------------
(* Properties of SpecThree *)

\* C17 (as claimed): the revenge denial is given only to a lowering of a user who
\* lowered the actor's karma in the last 120 seconds: an attempt on the message
\* of any other user is not denied for revenge, an attempt to raise is not denied
\* for revenge, and an admitted raise records no negative action.
C17_RevengeOnlyOnLowering ==
    [][\A c \in Chats, b \in Actors, m \in ThreeMessages, pm \in Events :
          message_handler(c, b, m, pm)
          => /\ ~LoweredRecentlyBy(c, b, Author(m)) => sent'.text # "REVENGE"
             /\ pm = "RAISE" => sent'.text # "REVENGE"
             /\ sent'.text = "RAISED" => last_karma_minus' = last_karma_minus
      ]_vars

----------------------------------------------------------------------------
(* Properties of SpecKarma, SpecRace and SpecTop *)

\* C8: after any sequence of sequential change_user_karma calls, get_user_karma
\* of every key is the sum of the changes of the calls made on that key, 0 for a
\* key with no call, whatever calls were made on the other keys.
C8_KarmaIsSumOfChanges ==
    \A k \in KarmaKeys :
        get_user_karma(karma, k[1], k[2]) = [error |-> FALSE, value |-> SumSeq(calls[k])]

\* C8 witness: a key with two calls or more whose karma differs from each single
\* change, a key with one call and a key with none
C8_Witness ==
    \E k1, k2, k3 \in KarmaKeys :
        /\ Len(calls[k1]) >= 2
        /\ \A i \in 1..Len(calls[k1]) : calls[k1][i] # SumSeq(calls[k1])
        /\ Len(calls[k2]) = 1
        /\ Len(calls[k3]) = 0

\* C9 (as claimed): when no change_user_karma call is in progress, every key that
\* calls were made on has exactly one row, whose karma is the sum of the changes
\* of all those calls.
C9_NoLostUpdate ==
    (\A p \in Procs : pc[p] = "idle")
    => \A k \in KarmaKeys :
          Len(calls[k]) > 0
          => /\ Len(SelectRows(karma, k[1], k[2])) = 1
             /\ SelectRows(karma, k[1], k[2])[1].karma = SumSeq(calls[k])

\* C10: the list get_ordered_karma_top returns has at most amount entries, each
\* the user and karma of a row of the chat asked for, with karma > 0 for biggest
\* and karma < 0 otherwise, in non-increasing (biggest) or non-decreasing karma
\* order, and no row of the chat that is eligible and left out has a karma
\* strictly better than a returned one.
C10_TopIsOrdered ==
    Len(top) = 1
    => LET q == top[1]
           InChat == { j \in DOMAIN karma : karma[j].chat_id = q.chat_id }
       IN /\ Len(q.rows) <= q.amount
          /\ \A i \in 1..Len(q.rows) :
                /\ \E j \in InChat :
                      karma[j].user_id = q.rows[i][1] /\ karma[j].karma = q.rows[i][2]
                /\ IF q.biggest THEN q.rows[i][2] > 0 ELSE q.rows[i][2] < 0
          /\ \A i, j \in 1..Len(q.rows) :
                i < j => IF q.biggest THEN q.rows[i][2] >= q.rows[j][2]
                         ELSE q.rows[i][2] <= q.rows[j][2]
          /\ \A j \in InChat :
                ( /\ IF q.biggest THEN karma[j].karma > 0 ELSE karma[j].karma < 0
                  /\ \A i \in 1..Len(q.rows) :
                        q.rows[i] # <<karma[j].user_id, karma[j].karma>> )
                => \A i \in 1..Len(q.rows) :
                      IF q.biggest THEN karma[j].karma <= q.rows[i][2]
                      ELSE karma[j].karma >= q.rows[i][2]

\* C10 witness: a query for the biggest karma returned two entries of different
\* karma while another chat holds a row of a karma at least as big
C10_Witness ==
    /\ Len(top) = 1
    /\ top[1].biggest
    /\ Len(top[1].rows) = 2
    /\ top[1].rows[1][2] > top[1].rows[2][2]
    /\ \E j \in DOMAIN karma :
          karma[j].chat_id # top[1].chat_id /\ karma[j].karma >= top[1].rows[2][2]

----------------------------------------------------------------------------
(* Properties of SpecParse *)

\* A phrase of the list is a prefix of the text when letter case is ignored on
\* both sides
MatchesIgnoringCase(commands, msg) ==
    \E i \in DOMAIN commands : startswith(lower(msg), lower(commands[i]))

\* C14 (as claimed): _parse_message returns RAISE iff some raise phrase is a prefix
\* of the text with letter case ignored on both sides, otherwise LOWER iff some
\* lower phrase is such a prefix, otherwise NOTHING.
C14_CaseInsensitivePrefix ==
    Len(parsed) = 1
    => parsed[1].result =
          IF MatchesIgnoringCase(RAISE_COMMANDS, parsed[1].msg) THEN "RAISE"
          ELSE IF MatchesIgnoringCase(LOWER_COMMANDS, parsed[1].msg) THEN "LOWER"
          ELSE "NOTHING"

----------------------------------------------------------------------------
(* Properties of SpecThread *)

\* C15 (as claimed): a change_chats_if_needed call made less than five minutes
\* after a call that reloaded the chat list returns False and makes no
\* get_all_chats query.
C15_ReloadEveryFiveMinutes ==
    [][( /\ Construct \/ LoopTop
         /\ thread.last_reload # <<>>
         /\ now - thread.last_reload[1] < 300 )
       => /\ ~thread'.reloaded
          /\ thread'.queries = thread.queries
      ]_vars

\* C16 (as claimed): a _try_send_message call makes at most 10 send attempts, and
\* it ends with TimeoutError only after 10 attempts that each ended in TimedOut
\* or RetryAfter.
C16_TenAttempts ==
    /\ thread.attempts <= 10
    /\ thread.pc = "dead" => thread.attempts = 10

\* The announcement id is in the table
InTable(id) == \E j \in DOMAIN all_announcements : all_announcements[j] = id

\* The thread has fetched the announcement id in its current round
Fetched(id) == \E j \in DOMAIN thread.announcements : thread.announcements[j] = id

\* C19 (as claimed): an announcement is deleted only when a send to every chat of
\* the thread's chat list has succeeded or been given up, and every announcement
\* the thread has fetched is eventually deleted.
C19_FetchedIsDeleted ==
    /\ [][\A id \in {1, 2} :
             ( InTable(id) /\ ~InTable(id)' )
             => thread.done = { chats[j] : j \in DOMAIN chats }
        ]_vars
    /\ \A id \in {1, 2} : [](Fetched(id) => <>(~InTable(id)))

----------------------------------------------------------------------------
(* Properties of SpecSteps *)

RECURSIVE ChangesMade(_, _, _)
\* The number of karma changes made for the events of actor a on the messages M
ChangesMade(c, a, M) ==
    IF M = {} THEN 0
    ELSE LET m == CHOOSE x \in M : TRUE
         IN Len(calls[<<c, a, m>>]) + ChangesMade(c, a, M \ {m})

\* C18 (as claimed): of the events of one actor on one message, handled
\* concurrently, at most one is admitted: the target's score is changed for them
\* by one unit of change at most.
C18_OneAdmissionPerMessage ==
    \A k \in StepKeys : Len(calls[k]) <= 1

\* C20 (as claimed): when no handler is running, every message marked as scored
\* by an actor had its score change made, and the actor's stats row counts the
\* score changes made for the actor's events and no more: no handler that failed
\* left a mark or a count without the score change.
C20_AllOrNothing ==
    (\A p \in Procs : pc[p] = "idle")
    => \A c \in Chats, a \in Actors :
          /\ \A m \in StepMessages :
                <<c, a, m>> \in used_messages => Len(calls[<<c, a, m>>]) >= 1
          /\ ChangesMade(c, a, StepMessages) =
                IF <<c, a>> \in DOMAIN stats THEN stats[<<c, a>>].today_karma_changes ELSE 0

====
